---- MODULE Spec2Model ----
(***************************************************************************)
(* Parallel BFS on CSR graphs: the CSR graph (include/parallel_bfs.h), the  *)
(* level-synchronous kernel ParallelBFS::optimized, the serial oracle       *)
(* ParallelBFS::baseline and validate_result (src/parallel_bfs.cpp).        *)
(*                                                                         *)
(* C++ arrays are 0-based; a TLA+ sequence holds a[i] at position i+1.      *)
(* Distance vectors are functions on 0..len-1.                              *)
(***************************************************************************)
EXTENDS Integers, Sequences, FiniteSets, Bags, TLC

INT_MAX == 2147483647

MaxV == 3
MaxE == 2
MaxThreads == 2

VARIABLES
    offsets, edges,          \* Graph::offsets, Graph::edges
    pc,                      \* position of the calling thread
    source,                  \* the source argument of the running call
    nthreads,                \* size of the OpenMP team
    dist,                    \* the caller's vector handed to optimized
    reference,               \* the vector baseline writes
    current_frontier, next_frontier, iteration, total_visited,
    wk,                      \* the team: a bag of worker positions and locals
    merged,                  \* history: next_frontier of each level before the sort
    taken,                   \* iterations of the omp for already handed out
    q,                       \* baseline's queue
    in_validate,             \* baseline was called by validate_result
    valid,                   \* validate_result's return value
    err, ub,                 \* how the call ended; an out-of-bounds access happened
    arg_ok,                  \* the call met the preconditions (source in [0,V), len = V)
    run, prev,               \* number of optimized calls made; result of the first
    call, arg_u, ret,        \* the last Graph method called, its argument, its result
    found_source, th,        \* optimized_multi_source: the flag, the threads by number
    entry,                   \* hybrid kernel: "multi" (hybrid) or "single" (bfs)
    frontier, next, remainder, remainder_ready, visited, mode,
    file,                    \* from_file: the pairs the stream still holds
    edge_list, unique_vertices, vertex_map, original_ids, pos

vars == <<offsets, edges, pc, source, nthreads, dist, reference, current_frontier,
          next_frontier, iteration, total_visited, wk, taken, merged, q,
          in_validate, valid, err, ub, arg_ok, run, prev, call, arg_u, ret,
          found_source, th, entry, frontier, next, remainder, remainder_ready,
          visited, mode, file, edge_list, unique_vertices, vertex_map, original_ids,
          pos>>

graphVars == <<offsets, edges>>
callVars == <<source, nthreads, arg_ok, run, prev>>
levelVars == <<current_frontier, next_frontier, iteration, total_visited, merged>>
teamVars == <<wk, taken>>
baseVars == <<reference, q, in_validate, valid>>
endVars == <<err, ub>>
apiVars == <<call, arg_u, ret>>

\* What the BFS entry points never touch: the graph and the other entry
\* points' state.
multiVars == <<found_source, th>>
hybridVars == <<entry, frontier, next, remainder, remainder_ready, visited, mode>>
fileVars == <<file, edge_list, unique_vertices, vertex_map, original_ids, pos>>
kernelFrame == <<graphVars, apiVars, multiVars, hybridVars, fileVars>>

-----------------------------------------------------------------------------
(* Graph *)

vertex_count == Len(offsets) - 1
edge_count == Len(edges)

\* Mutant: the end iterator is one short.
MutNeighbors(u) ==
    IF u < 0 \/ u >= Len(offsets) - 1
    THEN [thrown |-> "out_of_range", value |-> <<>>]
    ELSE [thrown |-> "none",
          value |-> SubSeq(edges, offsets[u + 1] + 1, offsets[u + 2] - 1)]

\* Graph::neighbors: the range check, then a copy of edges[offsets[u], offsets[u+1]).
\* Iterators outside [begin, end] or a reversed range are undefined behaviour.
neighbors(u) ==
    IF u < 0 \/ u >= Len(offsets) - 1
    THEN [thrown |-> "out_of_range", value |-> <<>>]
    ELSE IF 0 <= offsets[u + 1] /\ offsets[u + 1] <= offsets[u + 2]
             /\ offsets[u + 2] <= Len(edges)
         THEN [thrown |-> "none",
               value |-> SubSeq(edges, offsets[u + 1] + 1, offsets[u + 2])]
         ELSE [thrown |-> "undefined", value |-> <<>>]

\* The CSR values the builders produce: offsets[0] = 0, monotone, offsets[V] = E,
\* every target in [0,V).
MonoOffsets(V, E) ==
    {off \in [1..V + 1 -> 0..E] :
        /\ off[1] = 0
        /\ off[V + 1] = E
        /\ \A i \in 1..V : off[i] <= off[i + 1]}

\* The CSR of an edge list over vertices 0..V-1, sources ascending.
Csr(V, list) ==
    LET from(u) == {k \in 1..Len(list) : list[k][1] = u}
        upto(u) == Cardinality({k \in 1..Len(list) : list[k][1] < u})
    IN <<[i \in 1..V + 1 |-> upto(i - 1)], [k \in 1..Len(list) |-> list[k][2]]>>

\* Larger graphs: a path, two components, a star, the complete digraph on four
\* vertices, two parents racing for one child, two parents with a child each, and
\* a graph with a self-loop, a parallel edge, a cycle and a second component.
Scenarios ==
    { Csr(4, <<<<0, 1>>, <<1, 2>>, <<2, 3>>>>),
      Csr(5, <<<<0, 1>>, <<2, 3>>, <<3, 4>>>>),
      Csr(5, <<<<0, 1>>, <<0, 2>>, <<0, 3>>, <<0, 4>>>>),
      Csr(4, <<<<0, 1>>, <<0, 2>>, <<0, 3>>, <<1, 0>>, <<1, 2>>, <<1, 3>>,
               <<2, 0>>, <<2, 1>>, <<2, 3>>, <<3, 0>>, <<3, 1>>, <<3, 2>>>>),
      Csr(4, <<<<0, 1>>, <<0, 2>>, <<1, 3>>, <<2, 3>>>>),
      Csr(5, <<<<0, 2>>, <<0, 1>>, <<1, 3>>, <<2, 4>>, <<4, 0>>>>),
      Csr(5, <<<<0, 0>>, <<0, 1>>, <<0, 1>>, <<1, 2>>, <<2, 0>>, <<3, 4>>>>) }

InitGraph ==
    \/ \E V \in 1..MaxV : \E E \in 0..MaxE :
          \E off \in MonoOffsets(V, E) : \E e \in [1..E -> 0..V - 1] :
              /\ offsets = off
              /\ edges = e
    \/ \E g \in Scenarios :
              /\ offsets = g[1]
              /\ edges = g[2]

-----------------------------------------------------------------------------
(* std::sort followed by std::unique / erase *)

RECURSIVE InsertSorted(_, _)
InsertSorted(s, x) ==
    IF s = <<>> THEN <<x>>
    ELSE IF x < Head(s) THEN <<x>> \o s
    ELSE <<Head(s)>> \o InsertSorted(Tail(s), x)

RECURSIVE Sort(_)
Sort(s) == IF s = <<>> THEN <<>> ELSE InsertSorted(Sort(Tail(s)), Head(s))

\* std::unique: drops every element equal to its predecessor.
RECURSIVE Unique(_)
Unique(s) ==
    IF Len(s) <= 1 THEN s
    ELSE IF s[1] = s[2] THEN Unique(Tail(s))
    ELSE <<s[1]>> \o Unique(Tail(s))

-----------------------------------------------------------------------------
(* Undefined behaviour: an access outside the vector.  The build either     *)
(* faults there or carries on with memory the model does not follow.        *)

Undefined ==
    /\ ub' = TRUE
    /\ pc' = "undefined"
    /\ err' \in {"segfault", "none"}

InitRest ==
    /\ pc = "idle"
    /\ source = 0
    /\ nthreads = 1
    /\ dist = <<>>
    /\ reference = <<>>
    /\ current_frontier = <<>>
    /\ next_frontier = <<>>
    /\ iteration = 0
    /\ total_visited = 0
    /\ wk = EmptyBag
    /\ taken = {}
    /\ merged = <<>>
    /\ q = <<>>
    /\ in_validate = FALSE
    /\ valid = FALSE
    /\ err = "none"
    /\ ub = FALSE
    /\ arg_ok = TRUE
    /\ run = 0
    /\ prev = [dist |-> <<>>, merged |-> <<>>]
    /\ call = "none"
    /\ arg_u = 0
    /\ ret = <<>>
    /\ found_source = TRUE
    /\ th = <<>>
    /\ entry = "none"
    /\ frontier = <<>>
    /\ next = <<>>
    /\ remainder = <<>>
    /\ remainder_ready = FALSE
    /\ visited = 0
    /\ mode = "none"
    /\ edge_list = <<>>
    /\ unique_vertices = {}
    /\ vertex_map = <<>>
    /\ original_ids = <<>>
    /\ pos = <<>>

Init == InitGraph /\ InitRest /\ file = <<>>

-----------------------------------------------------------------------------
(* ParallelBFS::optimized *)

Fresh(len) == [i \in 0..len - 1 |-> INT_MAX]

\* The calls within the preconditions: source in [0,V), a vector of length V.
ValidArgs == {<<s, vertex_count>> : s \in 0..vertex_count - 1}

\* The calls outside them: a source one off either end, a vector one short or
\* one long.
BadArgs ==
    ((-1..vertex_count) \X (vertex_count - 1..vertex_count + 1)) \ ValidArgs

\* A caller allocates a vector, fills it with INT_MAX (main.cpp:82-83,
\* benchmark.cpp:32-36) and calls optimized(g, s, dist).
CallOptimized(Args, N) ==
    /\ pc = "idle"
    /\ \E a \in Args, n \in N :
        /\ source' = a[1]
        /\ nthreads' = n
        /\ dist' = Fresh(a[2])
        /\ arg_ok' = (a \in ValidArgs)
    /\ run' = 1
    /\ pc' = "opt_init"
    /\ UNCHANGED <<kernelFrame, levelVars, teamVars, baseVars, endVars, prev>>

\* The caller runs optimized again on the vector the first call left
\* (benchmark.cpp:45-50), with the same source and any team size.
CallAgain ==
    /\ pc = "returned"
    /\ run = 1
    /\ prev' = [dist |-> dist, merged |-> merged]
    /\ \E n \in 1..MaxThreads : nthreads' = n
    /\ run' = 2
    /\ pc' = "opt_init"
    /\ UNCHANGED <<kernelFrame, teamVars, baseVars, endVars, source, dist, levelVars,
                   arg_ok>>

\* Mutant: the store of 0 into dist[source] is missing.
MutInitDistances(d, V, s) ==
    [i \in DOMAIN d |-> IF i < V THEN INT_MAX ELSE d[i]]

\* Lines 77-88: the fill of dist[0..V), dist[source] = 0, the first frontier.
InitDistances(d, V, s) ==
    [i \in DOMAIN d |-> IF i = s THEN 0 ELSE IF i < V THEN INT_MAX ELSE d[i]]

OptInit ==
    /\ pc = "opt_init"
    /\ IF vertex_count - 1 \in DOMAIN dist /\ source \in DOMAIN dist
       THEN /\ dist' = InitDistances(dist, vertex_count, source)
            /\ current_frontier' = <<source>>
            /\ total_visited' = 1
            /\ iteration' = 0
            /\ merged' = <<>>
            /\ pc' = "level"
            /\ UNCHANGED <<endVars>>
       ELSE /\ Undefined
            /\ UNCHANGED <<dist, current_frontier, iteration, total_visited, merged>>
    /\ UNCHANGED <<kernelFrame, callVars, teamVars, baseVars, next_frontier>>

\* A worker between two iterations of the omp for; u, current_dist and the
\* position j in u's neighbours are dead there.
AtLoop == [pc |-> "for", u |-> 0, current_dist |-> 0, j |-> 0, private_next |-> <<>>]

\* The team is a bag of worker states: optimized never reads a thread's number.
Team(n) == [w \in {AtLoop} |-> n]

\* Mutant: a worker's change of position is lost.
MutMoved(team, w, w2) == team

Moved(team, w, w2) == (team (-) SetToBag({w})) (+) SetToBag({w2})

\* Lines 90-96: the loop test, a fresh next_frontier, the team starts.
LevelBegin ==
    /\ pc = "level"
    /\ current_frontier # <<>>
    /\ next_frontier' = <<>>
    /\ wk' = Team(nthreads)
    /\ taken' = {}
    /\ pc' = "parallel"
    /\ UNCHANGED <<kernelFrame, callVars, baseVars, endVars, dist, current_frontier,
                   iteration, total_visited, merged>>

\* Lines 98-102: a worker is handed iteration i of the omp for (any iteration not
\* yet handed out: the schedule is the implementation's), loads dist[u] and
\* copies u's neighbours.  An exception that leaves the parallel region ends the
\* process (std::terminate).
Take(w) ==
    /\ pc = "parallel"
    /\ w.pc = "for"
    /\ \E i \in (1..Len(current_frontier)) \ taken :
        LET u == current_frontier[i]
            nb == neighbors(u)
        IN /\ taken' = taken \cup {i}
           /\ IF nb.thrown = "none"
              THEN /\ wk' = IF nb.value = <<>> THEN wk
                            ELSE Moved(wk, w, [w EXCEPT !.pc = "visit", !.u = u,
                                                        !.current_dist = dist[u],
                                                        !.j = 0])
                   /\ UNCHANGED <<pc, err>>
              ELSE /\ pc' = "terminated"
                   /\ err' = "terminate"
                   /\ UNCHANGED wk
    /\ UNCHANGED <<kernelFrame, callVars, levelVars, baseVars, dist, ub>>

\* Mutant: the CAS expects 0 instead of INT_MAX.
MutCasWins(d, v) == d[v] = 0

\* compare_exchange_strong(expected = INT_MAX, desired): TRUE iff the slot held
\* INT_MAX.
CasWins(d, v) == d[v] = INT_MAX

\* Mutant: the + 1 is forgotten.
MutDesired(current_dist) == current_dist

\* What a winning CAS stores: current_dist + 1.
Desired(current_dist) == current_dist + 1

\* Mutant: a plain store in place of the CAS's conditional write.
MutStore(d, v, won, desired) == [d EXCEPT ![v] = desired]

\* Line 104: the CAS writes desired only when it wins.
Store(d, v, won, desired) == IF won THEN [d EXCEPT ![v] = desired] ELSE d

\* Mutant: the winner pushes the vertex twice.
MutClaim(won, private_next, v) ==
    IF won THEN private_next \o <<v, v>> ELSE private_next

\* Lines 104-105: the winner of the CAS pushes v into its private buffer.
Claim(won, private_next, v) ==
    IF won THEN Append(private_next, v) ELSE private_next

\* Lines 102-108: one neighbour of u: the CAS, and on success the push and the
\* count.
Visit(w) ==
    /\ pc = "parallel"
    /\ w.pc = "visit"
    /\ LET nb == neighbors(w.u).value
           v == nb[w.j + 1]
           more == w.j + 1 < Len(nb)
           won == CasWins(dist, v)
           buf == Claim(won, w.private_next, v)
       IN /\ dist' = Store(dist, v, won, Desired(w.current_dist))
          /\ total_visited' = IF won THEN total_visited + 1 ELSE total_visited
          /\ wk' = Moved(wk, w,
                         IF more THEN [w EXCEPT !.j = w.j + 1, !.private_next = buf]
                         ELSE [AtLoop EXCEPT !.private_next = buf])
    /\ UNCHANGED <<kernelFrame, callVars, baseVars, endVars, pc, current_frontier,
                   next_frontier, iteration, taken, merged>>

Joined == [AtLoop EXCEPT !.pc = "joined"]

\* Mutant: the buffer is assigned, not appended.
MutInsert(shared, private_next) == private_next

\* What the critical section leaves in next_frontier.
Insert(shared, private_next) == shared \o private_next

\* Lines 109-112: nowait, so a worker with no iteration left goes straight to
\* the critical section and appends its private buffer.
Merge(w) ==
    /\ pc = "parallel"
    /\ w.pc = "for"
    /\ taken = 1..Len(current_frontier)
    /\ next_frontier' = Insert(next_frontier, w.private_next)
    /\ wk' = Moved(wk, w, Joined)
    /\ UNCHANGED <<kernelFrame, callVars, baseVars, endVars, pc, dist, current_frontier,
                   iteration, total_visited, taken, merged>>

\* Mutant: erase(begin, unique(...)) drops the distinct prefix and keeps the rest.
MutDedup(s) ==
    IF s # <<>> THEN SubSeq(Sort(s), Len(Unique(Sort(s))) + 1, Len(s)) ELSE s

\* Lines 115-122, after the region's barrier: sort, unique, move, iteration++.
Dedup(s) == IF s # <<>> THEN Unique(Sort(s)) ELSE s

LevelEnd ==
    /\ pc = "parallel"
    /\ BagToSet(wk) = {Joined}
    /\ current_frontier' = Dedup(next_frontier)
    /\ merged' = Append(merged, next_frontier)
    /\ next_frontier' = <<>>
    /\ iteration' = iteration + 1
    /\ wk' = EmptyBag
    /\ taken' = {}
    /\ pc' = "level"
    /\ UNCHANGED <<kernelFrame, callVars, baseVars, endVars, dist, total_visited>>

\* Line 90 false, lines 132-134: the call returns.
OptReturn ==
    /\ pc = "level"
    /\ current_frontier = <<>>
    /\ pc' = "returned"
    /\ UNCHANGED <<kernelFrame, callVars, teamVars, baseVars, endVars, dist, levelVars>>

-----------------------------------------------------------------------------
(* ParallelBFS::baseline and validate_result *)

\* A caller calls baseline(g, s, d) on its own vector.
CallBaseline(Args) ==
    /\ pc = "idle"
    /\ \E a \in Args :
        /\ source' = a[1]
        /\ reference' = Fresh(a[2])
        /\ arg_ok' = (a \in ValidArgs)
    /\ in_validate' = FALSE
    /\ pc' = "base_init"
    /\ UNCHANGED <<kernelFrame, levelVars, teamVars, endVars, nthreads, dist, q, valid,
                   run, prev>>

\* Lines 158-159: validate_result allocates reference(dist.size()) and calls
\* baseline on it.
ValidateCall ==
    /\ pc = "returned"
    /\ run = 1
    /\ reference' = [i \in DOMAIN dist |-> 0]
    /\ in_validate' = TRUE
    /\ pc' = "base_init"
    /\ UNCHANGED <<kernelFrame, callVars, teamVars, endVars, dist, levelVars, q, valid>>

\* Mutant: the fill is missing; only the source is stored.
MutReset(d, s) == [d EXCEPT ![s] = 0]

\* Lines 138-139: every slot of the vector gets INT_MAX, then the source 0.
Reset(d, s) == [i \in DOMAIN d |-> IF i = s THEN 0 ELSE INT_MAX]

\* Lines 138-142.
BaseInit ==
    /\ pc = "base_init"
    /\ IF source \in DOMAIN reference
       THEN /\ reference' = Reset(reference, source)
            /\ q' = <<source>>
            /\ pc' = "base_loop"
            /\ UNCHANGED <<endVars>>
       ELSE /\ Undefined
            /\ UNCHANGED <<reference, q>>
    /\ UNCHANGED <<kernelFrame, callVars, teamVars, dist, levelVars, in_validate, valid>>

\* Mutant: the child gets its parent's distance.
RECURSIVE MutRelax(_, _, _, _, _)
MutRelax(d, qq, u, nb, k) ==
    IF k > Len(nb) THEN [d |-> d, q |-> qq]
    ELSE LET v == nb[k]
         IN IF d[v] = INT_MAX
            THEN MutRelax([d EXCEPT ![v] = d[u]], Append(qq, v), u, nb, k + 1)
            ELSE MutRelax(d, qq, u, nb, k + 1)

\* Lines 148-153 for the neighbours nb[k..] of u: the state [d, q] after them.
RECURSIVE Relax(_, _, _, _, _)
Relax(d, qq, u, nb, k) ==
    IF k > Len(nb) THEN [d |-> d, q |-> qq]
    ELSE LET v == nb[k]
         IN IF CasWins(d, v)
            THEN Relax([d EXCEPT ![v] = d[u] + 1], Append(qq, v), u, nb, k + 1)
            ELSE Relax(d, qq, u, nb, k + 1)

\* Lines 144-153: one turn of the while loop.
BaseStep ==
    /\ pc = "base_loop"
    /\ q # <<>>
    /\ LET u == Head(q)
           nb == neighbors(u)
       IN IF nb.thrown # "none"
          THEN /\ pc' = "threw"
               /\ err' = nb.thrown
               /\ UNCHANGED <<reference, q, ub>>
          ELSE IF \A k \in 1..Len(nb.value) : nb.value[k] \in DOMAIN reference
          THEN LET r == Relax(reference, Tail(q), u, nb.value, 1)
               IN /\ reference' = r.d
                  /\ q' = r.q
                  /\ UNCHANGED <<endVars, pc>>
          ELSE /\ Undefined
               /\ UNCHANGED <<reference, q>>
    /\ UNCHANGED <<kernelFrame, callVars, teamVars, dist, levelVars, in_validate, valid>>

\* Line 144 false: baseline returns, to its caller or into validate_result.
BaseReturn ==
    /\ pc = "base_loop"
    /\ q = <<>>
    /\ pc' = IF in_validate THEN "compare" ELSE "base_returned"
    /\ UNCHANGED <<kernelFrame, callVars, teamVars, baseVars, endVars, dist, levelVars>>

\* Lines 161-169: the elementwise comparison.
ValidateCompare ==
    /\ pc = "compare"
    /\ valid' = (\A i \in DOMAIN dist : dist[i] = reference[i])
    /\ pc' = "validated"
    /\ UNCHANGED <<kernelFrame, callVars, teamVars, endVars, dist, reference, levelVars,
                   q, in_validate>>

-----------------------------------------------------------------------------
(* The kernel called within its preconditions *)

Kernel ==
    \/ OptInit
    \/ LevelBegin
    \/ \E w \in BagToSet(wk) : Take(w)
    \/ \E w \in BagToSet(wk) : Visit(w)
    \/ \E w \in BagToSet(wk) : Merge(w)
    \/ LevelEnd
    \/ OptReturn
    \/ BaseInit
    \/ BaseStep
    \/ BaseReturn

Next ==
    \/ CallOptimized(ValidArgs, 1..MaxThreads)
    \/ CallBaseline(ValidArgs)
    \/ CallAgain
    \/ ValidateCall
    \/ ValidateCompare
    \/ Kernel

Spec == Init /\ [][Next]_vars

\* The same kernel called outside its preconditions.
NextArgs ==
    \/ CallOptimized(BadArgs, 1..MaxThreads)
    \/ CallBaseline(BadArgs)
    \/ Kernel

SpecArgs == Init /\ [][NextArgs]_vars

\* One call of optimized alone, every worker scheduled fairly: an OpenMP thread
\* that can take a step eventually takes one.
Traversal ==
    \/ OptInit
    \/ LevelBegin
    \/ \E w \in BagToSet(wk) : Take(w)
    \/ \E w \in BagToSet(wk) : Visit(w)
    \/ \E w \in BagToSet(wk) : Merge(w)
    \/ LevelEnd
    \/ OptReturn

NextLive ==
    \/ CallOptimized(ValidArgs, 1..MaxThreads)
    \/ Traversal

SpecLive == Init /\ [][NextLive]_vars /\ WF_vars(Traversal)

-----------------------------------------------------------------------------
(* The traversals on a vector that already holds something *)

\* What a slot may hold when a traversal is called: 0 (a value-initialised
\* vector, an earlier source), a finite distance, INT_MAX.
PriorValues == {0, 1, INT_MAX}

Prior(len) == [0..len - 1 -> PriorValues]

\* optimized(g, s, dist) on a vector of length V with any contents.
CallOnPrior ==
    /\ pc = "idle"
    /\ \E s \in 0..vertex_count - 1, n \in 1..MaxThreads, d \in Prior(vertex_count) :
        /\ source' = s
        /\ nthreads' = n
        /\ dist' = d
    /\ arg_ok' = TRUE
    /\ run' = 1
    /\ pc' = "opt_init"
    /\ UNCHANGED <<kernelFrame, levelVars, teamVars, baseVars, endVars, prev>>

\* baseline(g, s, d) on a vector of length V with any contents.
CallBaselineOnPrior ==
    /\ pc = "idle"
    /\ \E s \in 0..vertex_count - 1, d \in Prior(vertex_count) :
        /\ source' = s
        /\ reference' = d
    /\ arg_ok' = TRUE
    /\ in_validate' = FALSE
    /\ run' = 1
    /\ pc' = "base_init"
    /\ UNCHANGED <<kernelFrame, levelVars, teamVars, endVars, nthreads, dist, q, valid,
                   prev>>

\* optimized again on the vector the first call left, from any source and with
\* any team size; prev keeps what the vector held at the call.
RunAgain ==
    /\ pc = "returned"
    /\ run = 1
    /\ prev' = [dist |-> dist, merged |-> <<>>]
    /\ \E s \in 0..vertex_count - 1, n \in 1..MaxThreads :
        /\ source' = s
        /\ nthreads' = n
    /\ run' = 2
    /\ pc' = "opt_init"
    /\ UNCHANGED <<kernelFrame, teamVars, baseVars, endVars, dist, levelVars, arg_ok>>

\* baseline, from any source, on the vector an earlier call of baseline or of
\* optimized left.
BaselineAgain ==
    /\ pc \in {"returned", "base_returned"}
    /\ run = 1
    /\ \E left \in {IF pc = "returned" THEN dist ELSE reference} :
        /\ reference' = left
        /\ prev' = [dist |-> left, merged |-> <<>>]
    /\ \E s \in 0..vertex_count - 1 : source' = s
    /\ in_validate' = FALSE
    /\ run' = 2
    /\ pc' = "base_init"
    /\ UNCHANGED <<kernelFrame, levelVars, teamVars, endVars, nthreads, dist, q, valid,
                   arg_ok>>

\* Lines 144-153 to the end: the vector baseline leaves from the state [d, qq].
RECURSIVE BaselineFrom(_, _)
BaselineFrom(d, qq) ==
    IF qq = <<>> THEN d
    ELSE LET r == Relax(d, Tail(qq), Head(qq), neighbors(Head(qq)).value, 1)
         IN BaselineFrom(r.d, r.q)

\* baseline(g, s, d) run to its end on a vector of V slots holding INT_MAX.
OnFresh(s) == BaselineFrom(Reset(Fresh(vertex_count), s), <<s>>)

NextPrior ==
    \/ CallOnPrior
    \/ CallBaselineOnPrior
    \/ RunAgain
    \/ BaselineAgain
    \/ Kernel

SpecPrior == Init /\ [][NextPrior]_vars

-----------------------------------------------------------------------------
(* The Graph type on arbitrary vectors: constructor, validate, neighbors *)

GMaxV == 2
GMaxE == 2

SeqsUpTo(S, n) == UNION {[1..k -> S] : k \in 0..n}

\* Any two vectors a caller can hand to the constructor.
InitVectors ==
    /\ offsets \in SeqsUpTo(0..GMaxE, GMaxV + 1)
    /\ edges \in SeqsUpTo(-1..GMaxV, GMaxE)

graphFrame == <<dist, callVars, levelVars, teamVars, baseVars, multiVars,
                hybridVars, fileVars>>

\* parallel_bfs.h:25-29: the constructor throws on fewer than two offsets and
\* checks nothing else.
Construct ==
    /\ pc = "idle"
    /\ IF Len(offsets) < 2
       THEN pc' = "threw" /\ err' = "invalid_argument"
       ELSE pc' = "constructed" /\ err' = "none"
    /\ UNCHANGED <<graphVars, graphFrame, apiVars, ub>>

\* parallel_bfs.h:38-44.
validate ==
    IF offsets = <<>> \/ offsets[Len(offsets)] # Len(edges) THEN FALSE
    ELSE \A k \in 1..Len(edges) :
            ~(edges[k] < 0 \/ edges[k] >= Len(offsets) - 1)

CallValidate ==
    /\ pc = "constructed"
    /\ call' = "validate"
    /\ arg_u' = 0
    /\ ret' = validate
    /\ err' = "none"
    /\ UNCHANGED <<graphVars, graphFrame, pc, ub>>

\* g.neighbors(u) for u from one below to one above the vertex range.
CallNeighbors ==
    /\ pc = "constructed"
    /\ \E u \in -1..vertex_count :
        /\ call' = "neighbors"
        /\ arg_u' = u
        /\ ret' = neighbors(u).value
        /\ err' = neighbors(u).thrown
        /\ ub' = (ub \/ neighbors(u).thrown = "undefined")
    /\ UNCHANGED <<graphVars, graphFrame, pc>>

NextGraph ==
    \/ Construct
    \/ CallValidate
    \/ CallNeighbors

InitApi == InitVectors /\ InitRest /\ file = <<>>

SpecGraph == InitApi /\ [][NextGraph]_vars

-----------------------------------------------------------------------------
(* GraphGenerator::from_file *)

MaxLines == 3

\* The vertex ids a file names: not contiguous, not starting at 0 in general.
FileIds == {0, 2, 5}

\* What file >> u >> v yields until it fails: a sequence of pairs.
Files == SeqsUpTo(FileIds \X FileIds, MaxLines)

fileFrame == <<dist, callVars, levelVars, teamVars, baseVars, multiVars, hybridVars,
               apiVars, ub>>

\* Lines 22-25: the stream opens or runtime_error is thrown.
OpenFile ==
    /\ pc = "idle"
    /\ \E is_open \in BOOLEAN :
        IF is_open THEN pc' = "read" /\ err' = "none"
        ELSE pc' = "threw" /\ err' = "runtime_error"
    /\ UNCHANGED <<graphVars, fileVars, fileFrame>>

\* Lines 32-36: one pair is read.
ReadPair ==
    /\ pc = "read"
    /\ file # <<>>
    /\ edge_list' = Append(edge_list, Head(file))
    /\ unique_vertices' = unique_vertices \cup {Head(file)[1], Head(file)[2]}
    /\ file' = Tail(file)
    /\ UNCHANGED <<graphVars, fileFrame, pc, err, vertex_map, original_ids, pos>>

\* Line 32 false: the stream is exhausted.
ReadEnd ==
    /\ pc = "read"
    /\ file = <<>>
    /\ pc' = "ids"
    /\ UNCHANGED <<graphVars, fileVars, fileFrame, err>>

\* Lines 42-45: one turn of the range-for over the unordered_set.  The order in
\* which an unordered_set is iterated is the library's: any element not yet
\* visited may come next.
AssignId ==
    /\ pc = "ids"
    /\ \E vertex \in unique_vertices \ DOMAIN vertex_map :
        /\ vertex_map' = [x \in DOMAIN vertex_map \cup {vertex} |->
                            IF x = vertex THEN Len(original_ids) ELSE vertex_map[x]]
        /\ original_ids' = Append(original_ids, vertex)
    /\ UNCHANGED <<graphVars, fileFrame, pc, err, file, edge_list, unique_vertices, pos>>

\* Lines 53-55: offsets[vertex_map[edge.first] + 1]++ for the edges list[k..].
RECURSIVE CountDegrees(_, _, _)
CountDegrees(off, list, k) ==
    IF k > Len(list) THEN off
    ELSE CountDegrees([off EXCEPT ![vertex_map[list[k][1]] + 2] = @ + 1], list, k + 1)

\* Lines 58-60: offsets[i] += offsets[i - 1] for i = i..V.
RECURSIVE PrefixSum(_, _)
PrefixSum(off, i) ==
    IF i > Len(off) - 1 THEN off
    ELSE PrefixSum([off EXCEPT ![i + 1] = @ + off[i]], i + 1)

\* Mutant: the cursor is not advanced.
MutAdvance(p, u) == p

\* pos[u]++ of line 67.
Advance(p, u) == [p EXCEPT ![u + 1] = @ + 1]

\* Lines 66-68 for the edges list[k..]: the state [edges, pos] after them.
RECURSIVE Place(_, _, _, _)
Place(e, p, list, k) ==
    IF k > Len(list) THEN [edges |-> e, pos |-> p]
    ELSE LET u == vertex_map[list[k][1]]
             v == vertex_map[list[k][2]]
         IN Place([e EXCEPT ![p[u + 1] + 1] = v], Advance(p, u), list, k + 1)

\* Lines 47-60: the histogram of the sources, then its prefix sum.
BuiltOffsets ==
    PrefixSum(CountDegrees([i \in 1..Cardinality(unique_vertices) + 1 |-> 0],
                           edge_list, 1), 1)

\* Lines 47-68, once the range-for of line 42 has visited every element: the
\* offsets, edges resized, pos a copy of offsets[0..V), the second pass.
BuildCsr ==
    /\ pc = "ids"
    /\ DOMAIN vertex_map = unique_vertices
    /\ \E off \in {BuiltOffsets} :
       \E cursor \in {SubSeq(off, 1, Cardinality(unique_vertices))} :
       \E r \in {Place([n \in 1..Len(edge_list) |-> 0], cursor, edge_list, 1)} :
          /\ offsets' = off
          /\ edges' = r.edges
          /\ pos' = r.pos
    /\ pc' = "csr"
    /\ UNCHANGED <<fileFrame, err, file, edge_list, unique_vertices, vertex_map,
                   original_ids>>

\* Line 70: the Graph constructor, which throws on fewer than two offsets.
FileReturn ==
    /\ pc = "csr"
    /\ IF Len(offsets) < 2
       THEN pc' = "threw" /\ err' = "invalid_argument"
       ELSE pc' = "built" /\ err' = "none"
    /\ UNCHANGED <<graphVars, fileVars, fileFrame>>

NextFile ==
    \/ OpenFile
    \/ ReadPair
    \/ ReadEnd
    \/ AssignId
    \/ BuildCsr
    \/ FileReturn

InitFile ==
    /\ file \in Files
    /\ offsets = <<>>
    /\ edges = <<>>
    /\ InitRest

SpecFile == InitFile /\ [][NextFile]_vars

-----------------------------------------------------------------------------
(* ParallelBFS::optimized_multi_source *)

multiFrame == <<graphVars, apiVars, hybridVars, fileVars, callVars, teamVars, baseVars, endVars,
                current_frontier, next_frontier, iteration, merged>>

\* schedule(static) with no chunk size: one contiguous block per thread, the
\* first V mod n threads one iteration longer.  Each thread computes its own
\* block, so a thread's scan does not wait for the others.
ChunkLo(t, n, V) ==
    LET small == V \div n
        extra == V % n
    IN IF t < extra THEN t * (small + 1) ELSE extra * (small + 1) + (t - extra) * small

ChunkHi(t, n, V) == ChunkLo(t + 1, n, V)

AtWhile == [pc |-> "while", source |-> -1, i |-> 0, q |-> <<>>, u |-> 0, j |-> 0,
            local_visited |-> 0]

\* main.cpp:82-89: the caller fills dist with INT_MAX and calls the function;
\* lines 214-219: the counters, and the team starts.
CallMulti ==
    /\ pc = "idle"
    /\ \E n \in 1..MaxThreads :
        /\ nthreads' = n
        /\ th' = [t \in 0..n - 1 |-> AtWhile]
    /\ dist' = Fresh(vertex_count)
    /\ total_visited' = 0
    /\ found_source' = TRUE
    /\ pc' = "multi"
    /\ UNCHANGED <<graphVars, apiVars, hybridVars, fileVars, teamVars, baseVars, endVars, source,
                   arg_ok, run, prev, current_frontier, next_frontier, iteration,
                   merged>>

\* Lines 220-222: the loop test; source = -1; the thread's block of the scan.
While(t) ==
    /\ pc = "multi"
    /\ th[t].pc = "while"
    /\ th' = [th EXCEPT ![t] =
                IF found_source
                THEN [AtWhile EXCEPT !.pc = "scan",
                                     !.i = ChunkLo(t, nthreads, vertex_count)]
                ELSE [AtWhile EXCEPT !.pc = "exit"]]
    /\ UNCHANGED <<multiFrame, pc, dist, total_visited, found_source>>

\* Lines 224-231: one iteration of the scan.  Once source is set the rest of
\* the block changes nothing.
Scan(t) ==
    /\ pc = "multi"
    /\ th[t].pc = "scan"
    /\ th[t].i < ChunkHi(t, nthreads, vertex_count)
    /\ LET i == th[t].i
       IN IF dist[i] = INT_MAX /\ neighbors(i).value # <<>>
          THEN /\ dist' = [dist EXCEPT ![i] = 0]
               /\ th' = [th EXCEPT ![t].source = i,
                                   ![t].i = ChunkHi(t, nthreads, vertex_count)]
          ELSE /\ th' = [th EXCEPT ![t].i = i + 1]
               /\ UNCHANGED dist
    /\ UNCHANGED <<multiFrame, pc, total_visited, found_source>>

\* Mutant: no thread clears the flag after an empty scan.
MutCleared(t, flag) == flag

\* Lines 234-236: found_source after thread t found no source in its block.
Cleared(t, flag) == IF t = 0 THEN FALSE ELSE flag

\* Lines 233-243: no source in the block: thread 0 clears the flag, every thread
\* goes back to the loop test; otherwise the local BFS starts.
ScanEnd(t) ==
    /\ pc = "multi"
    /\ th[t].pc = "scan"
    /\ th[t].i = ChunkHi(t, nthreads, vertex_count)
    /\ IF th[t].source = -1
       THEN /\ found_source' = Cleared(t, found_source)
            /\ th' = [th EXCEPT ![t] = AtWhile]
       ELSE /\ th' = [th EXCEPT ![t].pc = "bfs", ![t].q = <<th[t].source>>,
                                ![t].local_visited = 1]
            /\ UNCHANGED found_source
    /\ UNCHANGED <<multiFrame, pc, dist, total_visited>>

\* Lines 245-247: the next vertex leaves the queue.
BfsPop(t) ==
    /\ pc = "multi"
    /\ th[t].pc = "bfs"
    /\ th[t].q # <<>>
    /\ LET u == Head(th[t].q)
       IN th' = [th EXCEPT ![t].q = Tail(@),
                           ![t].u = IF neighbors(u).value = <<>> THEN 0 ELSE u,
                           ![t].j = 0,
                           ![t].pc = IF neighbors(u).value = <<>> THEN "bfs" ELSE "relax"]
    /\ UNCHANGED <<multiFrame, pc, dist, total_visited, found_source>>

\* Lines 249-255: one neighbour of u.
BfsRelax(t) ==
    /\ pc = "multi"
    /\ th[t].pc = "relax"
    /\ LET w == th[t]
           nb == neighbors(w.u).value
           v == nb[w.j + 1]
           more == w.j + 1 < Len(nb)
           won == CasWins(dist, v)
       IN /\ dist' = IF won THEN [dist EXCEPT ![v] = dist[w.u] + 1] ELSE dist
          /\ th' = [th EXCEPT ![t] =
                      [w EXCEPT !.q = IF won THEN Append(w.q, v) ELSE w.q,
                                !.local_visited = IF won THEN @ + 1 ELSE @,
                                !.j = IF more THEN w.j + 1 ELSE 0,
                                !.u = IF more THEN w.u ELSE 0,
                                !.pc = IF more THEN "relax" ELSE "bfs"]]
    /\ UNCHANGED <<multiFrame, pc, total_visited, found_source>>

\* Line 258: the queue is empty; the fetch_add.
BfsDone(t) ==
    /\ pc = "multi"
    /\ th[t].pc = "bfs"
    /\ th[t].q = <<>>
    /\ total_visited' = total_visited + th[t].local_visited
    /\ th' = [th EXCEPT ![t] = [AtWhile EXCEPT !.pc = "check"]]
    /\ UNCHANGED <<multiFrame, pc, dist, found_source>>

\* Lines 261-263: the early exit.
EarlyExit(t) ==
    /\ pc = "multi"
    /\ th[t].pc = "check"
    /\ found_source' = IF total_visited >= vertex_count THEN FALSE ELSE found_source
    /\ th' = [th EXCEPT ![t] = AtWhile]
    /\ UNCHANGED <<multiFrame, pc, dist, total_visited>>

\* Lines 265-268: the region's barrier, then the function returns.
MultiReturn ==
    /\ pc = "multi"
    /\ \A t \in DOMAIN th : th[t].pc = "exit"
    /\ pc' = "multi_returned"
    /\ UNCHANGED <<multiFrame, dist, total_visited, multiVars>>

NextMulti ==
    \/ CallMulti
    \/ \E t \in DOMAIN th : While(t)
    \/ \E t \in DOMAIN th : Scan(t)
    \/ \E t \in DOMAIN th : ScanEnd(t)
    \/ \E t \in DOMAIN th : BfsPop(t)
    \/ \E t \in DOMAIN th : BfsRelax(t)
    \/ \E t \in DOMAIN th : BfsDone(t)
    \/ \E t \in DOMAIN th : EarlyExit(t)
    \/ MultiReturn

SpecMulti == Init /\ [][NextMulti]_vars

\* The steps of thread t between the start of the region and its barrier.
Thread(t) ==
    /\ t \in DOMAIN th
    /\ \/ While(t)
       \/ Scan(t)
       \/ ScanEnd(t)
       \/ BfsPop(t)
       \/ BfsRelax(t)
       \/ BfsDone(t)
       \/ EarlyExit(t)

LiveMaxE == 1

\* The graphs of the fair runs: every CSR graph of up to MaxV vertices and
\* LiveMaxE edges, and the larger graphs of Scenarios.
InitLive ==
    /\ \/ \E V \in 1..MaxV : \E E \in 0..LiveMaxE :
             \E off \in MonoOffsets(V, E) : \E e \in [1..E -> 0..V - 1] :
                 /\ offsets = off
                 /\ edges = e
       \/ \E g \in Scenarios :
                 /\ offsets = g[1]
                 /\ edges = g[2]
    /\ InitRest
    /\ file = <<>>

\* Every thread of the team is scheduled fairly: a thread that can take a step
\* eventually takes one, and the master leaves the barrier once all arrived.
SpecMultiLive ==
    /\ InitLive
    /\ [][NextMulti]_vars
    /\ \A t \in 0..MaxThreads - 1 : WF_vars(Thread(t))
    /\ WF_vars(MultiReturn)

-----------------------------------------------------------------------------
(* The hybrid direction-optimizing kernel of spec section 4.E.  main.cpp:91  *)
(* calls ParallelBFS::optimized_hybrid; its definition is not among the      *)
(* sources, so the kernel is modelled from the specification.                *)

IterEscape == 10
FrontierEscape == 100

hybridFrame == <<graphVars, apiVars, multiVars, fileVars, baseVars, endVars, arg_ok, run, prev,
                 current_frontier, next_frontier, total_visited, merged>>

\* The subsequence of s whose members are in S, in order.
RECURSIVE Filter(_, _)
Filter(s, S) ==
    IF s = <<>> THEN <<>>
    ELSE IF Head(s) \in S THEN <<Head(s)>> \o Filter(Tail(s), S)
    ELSE Filter(Tail(s), S)

\* 0, 1, ..., n-1.
Iota(n) == [i \in 1..n |-> i - 1]

\* Initialization, multi-source: every slot UNREACHED, then every vertex with
\* an out-edge gets distance 0 and enters the frontier.
HybridSources ==
    Filter(Iota(vertex_count),
           {i \in 0..vertex_count - 1 : offsets[i + 1] < offsets[i + 2]})

\* Mutant: the test for an out-edge is <= instead of <.
MutHybridDistances ==
    [i \in 0..vertex_count - 1 |->
        IF offsets[i + 1] <= offsets[i + 2] THEN 0 ELSE INT_MAX]

HybridDistances ==
    [i \in 0..vertex_count - 1 |->
        IF offsets[i + 1] < offsets[i + 2] THEN 0 ELSE INT_MAX]

HybridCall ==
    /\ pc = "idle"
    /\ entry' = "multi"
    /\ \E n \in 1..MaxThreads : nthreads' = n
    /\ dist' = HybridDistances
    /\ frontier' = HybridSources
    /\ remainder_ready' = FALSE
    /\ iteration' = 0
    /\ visited' = Len(HybridSources)
    /\ pc' = "h_level"
    /\ UNCHANGED <<hybridFrame, teamVars, source, next, remainder, mode>>

\* Initialization, single-source variant bfs(g, s, d): the frontier is {s}.
HybridCallSingle ==
    /\ pc = "idle"
    /\ entry' = "single"
    /\ \E n \in 1..MaxThreads : nthreads' = n
    /\ \E s \in 0..vertex_count - 1 :
        /\ source' = s
        /\ dist' = [i \in 0..vertex_count - 1 |-> IF i = s THEN 0 ELSE INT_MAX]
        /\ frontier' = <<s>>
    /\ remainder_ready' = FALSE
    /\ iteration' = 0
    /\ visited' = 1
    /\ pc' = "h_level"
    /\ UNCHANGED <<hybridFrame, teamVars, next, remainder, mode>>

\* Step 1.  work_est = |frontier| * avg_degree with avg_degree = E / V, so
\* work_est > x is |frontier| * E > x * V.
WorkExceeds(x4) == 4 * Len(frontier) * edge_count > x4 * vertex_count

\* Mutant: the test of remainder_ready is missing.
MutBottomUpChosen ==
    \/ WorkExceeds(4 * Len(remainder))
    \/ (iteration > IterEscape /\ Len(frontier) < FrontierEscape)

BottomUpChosen ==
    /\ remainder_ready
    /\ \/ WorkExceeds(4 * Len(remainder))
       \/ (iteration > IterEscape /\ Len(frontier) < FrontierEscape)

\* Step 2: work_est > V / 4.
Materialize == ~BottomUpChosen /\ ~remainder_ready /\ WorkExceeds(vertex_count)

StillUnreached(d) == {i \in 0..vertex_count - 1 : d[i] = INT_MAX}

\* Mutant: the linear scan starts at vertex 1.
MutUnreached(d) == Filter(Tail(Iota(vertex_count)), StillUnreached(d))

Unreached(d) == Filter(Iota(vertex_count), StillUnreached(d))

HWorker == [pc |-> "for", u |-> 0, j |-> 0, buf |-> <<>>]

\* Steps 1 and 2, then the team starts on the step chosen.
HSelect ==
    /\ pc = "h_level"
    /\ frontier # <<>>
    /\ mode' = IF BottomUpChosen THEN "bottom_up" ELSE "top_down"
    /\ IF Materialize
       THEN remainder' = Unreached(dist) /\ remainder_ready' = TRUE
       ELSE UNCHANGED <<remainder, remainder_ready>>
    /\ next' = <<>>
    /\ wk' = [w \in {HWorker} |-> nthreads]
    /\ taken' = {}
    /\ pc' = "h_step"
    /\ UNCHANGED <<hybridFrame, source, nthreads, dist, iteration, entry, frontier,
                   visited>>

\* Step 3: a worker is given a frontier vertex of its slice.
HTake(w) ==
    /\ pc = "h_step"
    /\ mode = "top_down"
    /\ w.pc = "for"
    /\ \E i \in (1..Len(frontier)) \ taken :
        /\ taken' = taken \cup {i}
        /\ wk' = IF neighbors(frontier[i]).value = <<>> THEN wk
                 ELSE Moved(wk, w, [w EXCEPT !.pc = "visit", !.u = frontier[i], !.j = 0])
    /\ UNCHANGED <<hybridFrame, hybridVars, pc, source, nthreads, dist, iteration>>

\* Step 3: d[v].cas(UNREACHED, d[u].load() + 1) for one neighbour v of u.
HVisit(w) ==
    /\ pc = "h_step"
    /\ w.pc = "visit"
    /\ LET nb == neighbors(w.u).value
           v == nb[w.j + 1]
           more == w.j + 1 < Len(nb)
           won == dist[v] = INT_MAX
           buf == IF won THEN Append(w.buf, v) ELSE w.buf
       IN /\ dist' = IF won THEN [dist EXCEPT ![v] = dist[w.u] + 1] ELSE dist
          /\ wk' = Moved(wk, w,
                         IF more THEN [w EXCEPT !.j = w.j + 1, !.buf = buf]
                         ELSE [HWorker EXCEPT !.buf = buf])
    /\ UNCHANGED <<hybridFrame, hybridVars, pc, source, nthreads, iteration, taken>>

\* Step 4: a worker is given a remainder vertex.  The chunking is left to the
\* implementer, so any vertex not yet handed out may come next.
BTake(w) ==
    /\ pc = "h_step"
    /\ mode = "bottom_up"
    /\ w.pc = "for"
    /\ \E i \in (1..Len(remainder)) \ taken :
        /\ taken' = taken \cup {i}
        /\ wk' = IF neighbors(remainder[i]).value = <<>> THEN wk
                 ELSE Moved(wk, w, [w EXCEPT !.pc = "scan", !.u = remainder[i], !.j = 0])
    /\ UNCHANGED <<hybridFrame, hybridVars, pc, source, nthreads, dist, iteration>>

\* Step 4: one out-neighbour v of u: if d[v] is not UNREACHED,
\* d[u].cas(UNREACHED, d[v].load() + 1); on success push u and leave the loop.
BScan(w) ==
    /\ pc = "h_step"
    /\ w.pc = "scan"
    /\ LET nb == neighbors(w.u).value
           v == nb[w.j + 1]
           more == w.j + 1 < Len(nb)
           won == dist[v] # INT_MAX /\ dist[w.u] = INT_MAX
       IN /\ dist' = IF won THEN [dist EXCEPT ![w.u] = dist[v] + 1] ELSE dist
          /\ wk' = Moved(wk, w,
                         IF won THEN [HWorker EXCEPT !.buf = Append(w.buf, w.u)]
                         ELSE IF more THEN [w EXCEPT !.j = w.j + 1]
                         ELSE [HWorker EXCEPT !.buf = w.buf])
    /\ UNCHANGED <<hybridFrame, hybridVars, pc, source, nthreads, iteration, taken>>

HJoined == [HWorker EXCEPT !.pc = "joined"]

HItems == IF mode = "bottom_up" THEN remainder ELSE frontier

\* End of either step: a worker with nothing left adds its buffer to next.
HMerge(w) ==
    /\ pc = "h_step"
    /\ w.pc = "for"
    /\ taken = 1..Len(HItems)
    /\ next' = next \o w.buf
    /\ wk' = Moved(wk, w, HJoined)
    /\ UNCHANGED <<hybridFrame, pc, source, nthreads, dist, iteration, taken, entry,
                   frontier, remainder, remainder_ready, visited, mode>>

\* After a bottom-up step the remainder is filtered to the vertices still
\* UNREACHED; step 5: visited, frontier, iteration.
HLevelEnd ==
    /\ pc = "h_step"
    /\ BagToSet(wk) = {HJoined}
    /\ remainder' = IF mode = "bottom_up"
                    THEN Filter(remainder, StillUnreached(dist))
                    ELSE remainder
    /\ visited' = visited + Len(next)
    /\ frontier' = next
    /\ next' = <<>>
    /\ iteration' = iteration + 1
    /\ wk' = EmptyBag
    /\ taken' = {}
    /\ pc' = "h_level"
    /\ UNCHANGED <<hybridFrame, source, nthreads, dist, entry, remainder_ready, mode>>

\* Termination: the frontier is empty.
HReturn ==
    /\ pc = "h_level"
    /\ frontier = <<>>
    /\ pc' = "h_returned"
    /\ UNCHANGED <<hybridFrame, hybridVars, teamVars, source, nthreads, dist, iteration>>

NextHybrid ==
    \/ HybridCall
    \/ HybridCallSingle
    \/ HSelect
    \/ \E w \in BagToSet(wk) : HTake(w)
    \/ \E w \in BagToSet(wk) : HVisit(w)
    \/ \E w \in BagToSet(wk) : BTake(w)
    \/ \E w \in BagToSet(wk) : BScan(w)
    \/ \E w \in BagToSet(wk) : HMerge(w)
    \/ HLevelEnd
    \/ HReturn

\* An undirected graph on which the heuristic runs level 1 bottom-up from source
\* 3: the edges 0-1, 0-2, 1-2 and eight parallel edges 2-3, each stored in both
\* directions, and the isolated vertex 4.
HybridScenarios ==
    { Csr(5, <<<<0, 1>>, <<0, 2>>, <<1, 0>>, <<1, 2>>, <<2, 0>>, <<2, 1>>,
               <<2, 3>>, <<2, 3>>, <<2, 3>>, <<2, 3>>,
               <<2, 3>>, <<2, 3>>, <<2, 3>>, <<2, 3>>,
               <<3, 2>>, <<3, 2>>, <<3, 2>>, <<3, 2>>,
               <<3, 2>>, <<3, 2>>, <<3, 2>>, <<3, 2>>>>) }

InitHybrid ==
    /\ \/ InitGraph
       \/ \E g \in HybridScenarios :
              /\ offsets = g[1]
              /\ edges = g[2]
    /\ InitRest
    /\ file = <<>>

SpecHybrid == InitHybrid /\ [][NextHybrid]_vars

-----------------------------------------------------------------------------
(* Shortest paths, defined from the graph alone *)

Vertices == 0..vertex_count - 1

Nb(u) == {neighbors(u).value[k] : k \in 1..Len(neighbors(u).value)}

\* The vertices a walk of exactly k edges from s can end in.
RECURSIVE Layer(_, _)
Layer(s, k) == IF k = 0 THEN {s} ELSE UNION {Nb(u) : u \in Layer(s, k - 1)}

Reachable(s) == UNION {Layer(s, k) : k \in 0..vertex_count - 1}

MinDist(s, v) ==
    IF v \in Reachable(s)
    THEN CHOOSE k \in 0..vertex_count - 1 :
            v \in Layer(s, k) /\ \A m \in 0..k - 1 : v \notin Layer(s, m)
    ELSE INT_MAX

-----------------------------------------------------------------------------
(* Claims *)

\* C1: for every valid graph, source, team size and interleaving, the vector
\* optimized leaves equals, element by element, the vector baseline leaves for
\* the same (g, s); validate_result reports exactly that.
C1_OptimizedEqualsBaseline ==
    pc = "validated" =>
        /\ valid
        /\ \A i \in DOMAIN dist : dist[i] = reference[i]

\* C1's case: two workers, a vertex at distance 2 with two parents in the same
\* frontier.
C1_Witness ==
    /\ pc = "validated"
    /\ nthreads = 2
    /\ \E u1, u2, v \in Vertices :
        /\ u1 # u2
        /\ dist[u1] = 1 /\ dist[u2] = 1 /\ dist[v] = 2
        /\ v \in Nb(u1) \cap Nb(u2)

\* C2: baseline leaves the canonical BFS distances: the least number of edges
\* of a directed path from s to v, INT_MAX where there is none.
C2_BaselineCanonical ==
    pc \in {"base_returned", "compare"} =>
        \A v \in Vertices : reference[v] = MinDist(source, v)

\* C2's case: a direct call that leaves a vertex at distance 2 and one unreached.
C2_Witness ==
    /\ pc = "base_returned"
    /\ \E v, w \in Vertices : reference[v] = 2 /\ reference[w] = INT_MAX

\* C3: after optimized returns, d[v] = INT_MAX iff no directed path leads from
\* s to v.
C3_UnreachedIffNoPath ==
    pc = "returned" =>
        \A v \in Vertices : (dist[v] = INT_MAX) <=> (v \notin Reachable(source))

\* C3's case: two workers on a graph with a self-loop at the source, a parallel
\* edge, a cycle back to the source and a vertex with no path to it.
C3_Witness ==
    /\ pc = "returned"
    /\ nthreads = 2
    /\ source \in Nb(source)
    /\ \E u \in Vertices : Cardinality(Nb(u)) < Len(neighbors(u).value)
    /\ \E u, w \in Vertices :
        /\ u # source /\ source \in Nb(u) /\ dist[u] = 2
        /\ dist[w] = INT_MAX

\* C4: from the initialisation on and after the return d[s] = 0; no step of the
\* traversal overwrites it.
C4_SourceStaysZero ==
    pc \in {"level", "parallel", "returned"} => dist[source] = 0

\* C4's case: the call returned on a graph where the source has a self-loop and
\* lies on a longer cycle.
C4_Witness ==
    /\ pc = "returned"
    /\ nthreads = 2
    /\ source \in Nb(source)
    /\ \E u \in Vertices : u # source /\ source \in Nb(u) /\ dist[u] < INT_MAX

\* C5: two executions on the same graph and source, with any team sizes and
\* schedules, end with the same distance vector.
C5_DistancesDetermined ==
    (pc = "returned" /\ run = 2) => dist = prev.dist

\* C5's case: the two executions merged their frontiers in different orders.
C5_Witness ==
    /\ pc = "returned"
    /\ run = 2
    /\ merged # prev.merged
    /\ dist = prev.dist

\* C8: a call with a source outside [0,V) or a vector whose length is not V is
\* rejected with InvalidArgument before any access to the vector.
C8_BadCallRejected ==
    ~arg_ok =>
        /\ ~ub
        /\ pc \in {"opt_init", "base_init", "rejected"}
        /\ pc = "rejected" => err = "InvalidArgument"

\* The four CSR invariants of the data model: at least two offsets, offsets
\* non-decreasing, the last offset equal to the edge count, every target in
\* [0,V).
OffsetsMonotone == \A i \in 1..Len(offsets) - 1 : offsets[i] <= offsets[i + 1]

CsrInvariants ==
    /\ Len(offsets) >= 2
    /\ OffsetsMonotone
    /\ offsets[Len(offsets)] = Len(edges)
    /\ \A k \in 1..Len(edges) : edges[k] \in 0..Len(offsets) - 2

\* C9: on a graph that meets the CSR invariants, neighbors(u) throws
\* out_of_range for every u outside [0,V) and otherwise returns
\* edges[offsets[u]], ..., edges[offsets[u+1]-1] in that order.
C9_AtCall ==
    (call = "neighbors" /\ CsrInvariants) =>
        IF arg_u < 0 \/ arg_u >= vertex_count
        THEN err = "out_of_range"
        ELSE /\ err = "none"
             /\ ret = [k \in 1..offsets[arg_u + 2] - offsets[arg_u + 1] |->
                          edges[offsets[arg_u + 1] + k]]

\* ... and no call changes the graph.
C9_Neighbors == []C9_AtCall /\ [][UNCHANGED <<offsets, edges>>]_vars

\* C9's case: a call with u = V is refused on a graph whose last vertex has two
\* out-edges, which a call with u = V - 1 would return.
C9_Witness ==
    /\ call = "neighbors"
    /\ CsrInvariants
    /\ arg_u = vertex_count
    /\ err = "out_of_range"
    /\ neighbors(vertex_count - 1).value = <<1, 0>>

\* C10: validate() returns true iff all four CSR invariants hold.
C10_ValidateIffInvariants ==
    call = "validate" => (ret <=> CsrInvariants)

OutDegree(v) == Len(neighbors(v).value)

HasInEdge(v) == \E u \in Vertices : v \in Nb(u)

\* C6: after optimized_multi_source returns, every vertex with an out-edge has
\* a finite distance and every vertex with neither out-edges nor in-edges is
\* still at INT_MAX.
C6_MultiSourceCovers ==
    pc = "multi_returned" =>
        \A v \in Vertices :
            /\ OutDegree(v) > 0 => dist[v] < INT_MAX
            /\ (OutDegree(v) = 0 /\ ~HasInEdge(v)) => dist[v] = INT_MAX

\* C7: in the multi-source hybrid traversal no finite distance above 1 is ever
\* written, and on return d[v] = 0 for every vertex with an out-edge, 1 for
\* every other vertex that is some vertex's out-neighbour, INT_MAX for the rest.
C7_HybridLevels ==
    entry = "multi" =>
        /\ \A v \in Vertices : dist[v] \in {0, 1, INT_MAX}
        /\ pc = "h_returned" =>
              \A v \in Vertices :
                  dist[v] = IF OutDegree(v) > 0 THEN 0
                            ELSE IF HasInEdge(v) THEN 1 ELSE INT_MAX

\* C7's case: two workers; the call returned with a source, a sink reached at
\* level 1 and a vertex left unreached.
C7_Witness ==
    /\ entry = "multi"
    /\ pc = "h_returned"
    /\ nthreads = 2
    /\ \E a, b, c \in Vertices : dist[a] = 0 /\ dist[b] = 1 /\ dist[c] = INT_MAX

\* The number of frontiers of the running call that held v.
RECURSIVE TimesInFrontier(_, _)
TimesInFrontier(v, k) ==
    IF k = 0 THEN (IF v = source THEN 1 ELSE 0)
    ELSE TimesInFrontier(v, k - 1)
         + (IF \E i \in 1..Len(merged[k]) : merged[k][i] = v THEN 1 ELSE 0)

C11_Bounded ==
    pc \in {"level", "parallel", "returned"} =>
        /\ iteration <= vertex_count
        /\ \A v \in Vertices : TimesInFrontier(v, Len(merged)) <= 1

\* C11: under fair scheduling every call of optimized returns, after at most V
\* turns of the level loop, and no vertex is in more than one frontier.
C11_Terminates == (pc = "opt_init" ~> pc = "returned") /\ []C11_Bounded

\* C11's case: two workers; the call returned after exactly V levels on a graph
\* with an edge back to the source.
C11_Witness ==
    /\ pc = "returned"
    /\ nthreads = 2
    /\ iteration = vertex_count
    /\ \E u \in Vertices : source \in Nb(u)

\* The number of positions of s that hold x.
Occurrences(s, x) == Cardinality({k \in 1..Len(s) : s[k] = x})

\* C12: the graph from_file returns holds, as the multiset of its (u, v) with v
\* in neighbors(u), exactly the edges read, remapped; the remapping is a
\* bijection from the endpoint ids onto [0,V); offsets are monotone from 0 to
\* the number of edges.
C12_CsrRoundTrip ==
    pc = "built" =>
        LET ids == {edge_list[k][i] : k \in 1..Len(edge_list), i \in 1..2}
        IN /\ DOMAIN vertex_map = ids
           /\ {vertex_map[x] : x \in ids} = Vertices
           /\ \A x, y \in ids : vertex_map[x] = vertex_map[y] => x = y
           /\ \A u, v \in Vertices :
                 Occurrences(neighbors(u).value, v)
                   = Cardinality({k \in 1..Len(edge_list) :
                        vertex_map[edge_list[k][1]] = u /\ vertex_map[edge_list[k][2]] = v})
           /\ offsets[1] = 0
           /\ offsets[vertex_count + 1] = Len(edge_list)
           /\ OffsetsMonotone

\* C12's case: a file with a duplicate edge and a self-loop whose ids are not
\* their own internal ids.
C12_Witness ==
    /\ pc = "built"
    /\ \E j, k \in 1..Len(edge_list) : j # k /\ edge_list[j] = edge_list[k]
    /\ \E k \in 1..Len(edge_list) : edge_list[k][1] = edge_list[k][2]
    /\ \E x \in DOMAIN vertex_map : vertex_map[x] # x
    /\ vertex_count = 2

\* The distinct ids of the pairs list[k..], in the order first met, after seen.
RECURSIVE FirstSeen(_, _, _)
FirstSeen(list, k, seen) ==
    IF k > Len(list) THEN seen
    ELSE LET has(q1, x) == \E i \in 1..Len(q1) : q1[i] = x
             s1 == IF has(seen, list[k][1]) THEN seen ELSE Append(seen, list[k][1])
             s2 == IF has(s1, list[k][2]) THEN s1 ELSE Append(s1, list[k][2])
         IN FirstSeen(list, k + 1, s2)

\* C13: internal ids are given in the order in which the endpoint ids are first
\* met in the file: original_ids lists them in that order.
C13_FirstEncounterOrder ==
    pc \in {"csr", "built"} => original_ids = FirstSeen(edge_list, 1, <<>>)

\* How often v is held by the private buffers of the team.
RECURSIVE InBuffers(_, _)
InBuffers(v, team) ==
    IF team = {} THEN 0
    ELSE LET w == CHOOSE x \in team : TRUE
         IN wk[w] * Occurrences(w.private_next, v) + InBuffers(v, team \ {w})

\* C14: during a level every vertex whose slot left INT_MAX in that level is
\* held exactly once by the private buffers and next_frontier together, and no
\* other vertex is held at all; so after the merge, before the sort,
\* next_frontier holds exactly the claimed vertices, each once.
C14_ClaimedOnce ==
    pc = "parallel" =>
        \A v \in Vertices :
            Occurrences(next_frontier, v) + InBuffers(v, BagToSet(wk))
                = IF dist[v] = iteration + 1 THEN 1 ELSE 0

\* C14's case: two workers have merged; a vertex with two parents in the
\* frontier is in next_frontier once.
C14_Witness ==
    /\ pc = "parallel"
    /\ nthreads = 2
    /\ BagToSet(wk) = {Joined}
    /\ \E v \in Vertices : \E i, j \in 1..Len(current_frontier) :
        /\ i # j
        /\ v \in Nb(current_frontier[i]) \cap Nb(current_frontier[j])
        /\ Occurrences(next_frontier, v) = 1

C15_Step ==
    pc \in {"level", "parallel"} =>
        \A v \in DOMAIN dist :
            dist'[v] # dist[v] => (dist[v] = INT_MAX /\ dist'[v] < INT_MAX)

C15_FrontierClaimed ==
    pc \in {"level", "parallel"} =>
        \A i \in 1..Len(current_frontier) :
            /\ dist[current_frontier[i]] < INT_MAX
            /\ \/ current_frontier[i] = source
               \/ \E k \in 1..Len(merged) :
                     Occurrences(merged[k], current_frontier[i]) = 1

\* C15: after the initialisation a slot changes only from INT_MAX to a finite
\* value, so a finite slot keeps its value to the end of the call; every
\* frontier vertex is the source or was pushed by the one CAS that set its slot.
C15_WriteOnce == [][C15_Step]_vars /\ []C15_FrontierClaimed

\* C15's case: the call returned on a graph where a reached vertex has two
\* reached parents, so a second CAS on its slot was tried and failed.
C15_Witness ==
    /\ pc = "returned"
    /\ nthreads = 2
    /\ \E u1, u2, v \in Vertices :
        /\ u1 # u2
        /\ v \in Nb(u1) \cap Nb(u2)
        /\ dist[u1] < INT_MAX /\ dist[u2] < INT_MAX /\ dist[v] < INT_MAX
    /\ \E u \in Vertices : source \in Nb(u) /\ dist[u] < INT_MAX

\* C16: at the boundary before level k = iteration, d[v] = k exactly for the
\* vertices at shortest distance k, the frontier is that set, the vertices
\* nearer than k hold their distance and those beyond k still hold INT_MAX.
C16_LevelInvariant ==
    pc = "level" =>
        \A md \in {[v \in Vertices |-> MinDist(source, v)]} :
            /\ \A v \in Vertices :
                  /\ (dist[v] = iteration) <=> (md[v] = iteration)
                  /\ md[v] < iteration => dist[v] = md[v]
                  /\ md[v] > iteration => dist[v] = INT_MAX
            /\ {current_frontier[i] : i \in 1..Len(current_frontier)}
                  = {v \in Vertices : md[v] = iteration}

\* C16's case: two workers, a boundary after the first level with two frontier
\* vertices and a reachable vertex not yet reached.
C16_Witness ==
    /\ pc = "level"
    /\ nthreads = 2
    /\ iteration >= 1
    /\ Len(current_frontier) >= 2
    /\ \E v \in Vertices : iteration < MinDist(source, v) /\ MinDist(source, v) < INT_MAX

C17_Step ==
    pc = "h_step" =>
        \A v \in DOMAIN dist : dist'[v] # dist[v] => dist'[v] = iteration + 1

\* C17: every value the hybrid level loop writes into the distance vector
\* during level k = iteration is k + 1, in top-down and bottom-up steps alike.
C17_WritesNextLevel == [][C17_Step]_vars

\* Adjacency is symmetric: v is a neighbour of u exactly when u is one of v.
Symmetric == \A u, v \in Vertices : (v \in Nb(u)) <=> (u \in Nb(v))

\* C18: on a graph with symmetric adjacency the level loop started from {s}
\* leaves the baseline BFS distances, whichever levels ran bottom-up.
C18_HybridEqualsBaseline ==
    (entry = "single" /\ pc = "h_returned" /\ Symmetric) =>
        \A v \in Vertices : dist[v] = MinDist(source, v)

C19_Select ==
    /\ (pc = "h_level" /\ pc' = "h_step" /\ mode' = "bottom_up") =>
            (remainder_ready /\ iteration > 0)
    /\ (remainder_ready /\ pc # "idle") => remainder_ready'

C19_Running ==
    (pc = "h_step" /\ mode = "bottom_up") => (remainder_ready /\ iteration > 0)

\* C19: a level is run bottom-up only if remainder_ready held when the mode was
\* chosen; the level with iteration = 0 is run top-down; remainder_ready, once
\* true, stays true to the end of the call.
C19_ModeSelection == [][C19_Select]_vars /\ []C19_Running

\* C19's case: two workers inside a bottom-up level that follows a level in
\* which the remainder was materialized.
C19_Witness ==
    /\ pc = "h_step"
    /\ mode = "bottom_up"
    /\ nthreads = 2
    /\ iteration = 1
    /\ remainder # <<>>

C21_PriorIndependent ==
    /\ pc = "returned" => dist = OnFresh(source)
    /\ pc = "base_returned" => reference = OnFresh(source)
    /\ (pc = "returned" /\ run = 2 /\ prev.dist[source] = 0) => dist = prev.dist
    /\ (pc = "base_returned" /\ run = 2 /\ prev.dist[source] = 0
            /\ \A v \in DOMAIN prev.dist : v # source => prev.dist[v] # 0)
          => reference = prev.dist

\* C21's case: two workers ran optimized from another source on the vector an
\* earlier run left; a slot that held a finite distance is back at INT_MAX and
\* a slot that held INT_MAX has a finite distance.
C21_Witness ==
    /\ pc = "returned"
    /\ run = 2
    /\ nthreads = 2
    /\ prev.dist[source] = INT_MAX
    /\ \E v, w \in DOMAIN dist :
        /\ prev.dist[v] = 1 /\ dist[v] = INT_MAX
        /\ prev.dist[w] = INT_MAX /\ dist[w] = 2

\* C22: optimized_multi_source terminates under every fair interleaving: every
\* thread sees found_source = false and leaves its while loop, so the call
\* returns; and on return total_visited is the number of vertices whose
\* distance is finite.
C22_Counted ==
    pc = "multi_returned" =>
        total_visited = Cardinality({v \in Vertices : dist[v] < INT_MAX})

C22_Terminates == (pc = "multi" ~> pc = "multi_returned") /\ []C22_Counted

\* C22's case: a team of two returned after thread 1 claimed a source in its
\* block and reached a vertex from it, with a vertex left at INT_MAX, so the
\* loop ended by thread 0's empty scan and not by the early exit.
C22_Witness ==
    /\ pc = "multi_returned"
    /\ nthreads = 2
    /\ total_visited < vertex_count
    /\ \E v \in Vertices : v >= ChunkLo(1, 2, vertex_count) /\ dist[v] = 0
    /\ \E v \in Vertices : dist[v] \notin {0, INT_MAX}

====
